---- MODULE Spec2Model ----
(***************************************************************************)
(* Model of the Linux platform layer of global-hotkey: the backend         *)
(* selection of platform_impl/linux/mod.rs and the portal ("wayland")      *)
(* manager of platform_impl/linux/wayland/{mod.rs,runtime.rs}: the facade  *)
(* (GlobalHotKeyManager), the dispatcher thread (events_processor), the    *)
(* blocking bridge to the portal session (Xdgs / AsyncXdgs) and the        *)
(* trigger translation tables.                                             *)
(*                                                                         *)
(* Strings the code builds with format! are sequences of tokens, the "+"   *)
(* delimiter being a token of its own.  A panic unwinds (the default       *)
(* panic strategy): the locals of events_processor are dropped in reverse  *)
(* order of declaration.                                                   *)
(***************************************************************************)
EXTENDS Integers, Sequences, FiniteSets, TLC

\* ------------------------------------------------------------- bounds
\* Size of the identifier space drawn from by random::<u32>() (2^32 in the code).
NumIds == 3
\* Facade calls (register, unregister, register_all, unregister_all) per run.
MaxCalls == 2
\* Hotkeys handed to register and register_all per run (below NumIds: the
\* allocation loop of AsyncXdgs::register always finds a free identifier).
MaxReg == 2
\* Backend activation / deactivation signals per run.
MaxSignals == 1
\* How many times the translation of one hotkey is evaluated.
MaxTranslations == 2

Ids == 0 .. (NumIds - 1)
Callers == {"t1", "t2"}

\* ------------------------------------------------- trigger translator

\* keyboard_types::Modifiers flags the translator looks at.
Modifiers == {"SHIFT", "CONTROL", "ALT", "SUPER", "META"}

\* fn add_keys(current: &mut String, add: &str)
add_keys(current, add) ==
    IF current = <<>> THEN <<add>> ELSE current \o <<"+", add>>

\* A plausible slip: SUPER and META tested one after the other.
modifiers_to_freedesktop_spec_each(modifiers) ==
    LET s0 == <<>>
        s1 == IF "SHIFT" \in modifiers THEN add_keys(s0, "SHIFT") ELSE s0
        s2 == IF "SUPER" \in modifiers THEN add_keys(s1, "LOGO") ELSE s1
        s3 == IF "META" \in modifiers THEN add_keys(s2, "LOGO") ELSE s2
        s4 == IF "ALT" \in modifiers THEN add_keys(s3, "ALT") ELSE s3
        s5 == IF "CONTROL" \in modifiers THEN add_keys(s4, "CTRL") ELSE s4
    IN  s5

\* fn modifiers_to_freedesktop_spec(modifiers: Modifiers) -> String
modifiers_to_freedesktop_spec(modifiers) ==
    LET s0 == <<>>
        s1 == IF "SHIFT" \in modifiers THEN add_keys(s0, "SHIFT") ELSE s0
        s2 == IF modifiers \cap {"SUPER", "META"} # {} THEN add_keys(s1, "LOGO") ELSE s1
        s3 == IF "ALT" \in modifiers THEN add_keys(s2, "ALT") ELSE s2
        s4 == IF "CONTROL" \in modifiers THEN add_keys(s3, "CTRL") ELSE s3
    IN  s4

\* The arms of the match in keycode_to_freedesktop_spec, as Code :> name.
KeyTable ==
    [KeyA |-> "A", KeyB |-> "B", KeyC |-> "C", KeyD |-> "D", KeyE |-> "E",
     KeyF |-> "F", KeyG |-> "G", KeyH |-> "H", KeyI |-> "I", KeyJ |-> "J",
     KeyK |-> "K", KeyL |-> "L", KeyM |-> "M", KeyN |-> "N", KeyO |-> "O",
     KeyP |-> "P", KeyQ |-> "Q", KeyR |-> "R", KeyS |-> "S", KeyT |-> "T",
     KeyU |-> "U", KeyV |-> "V", KeyW |-> "W", KeyX |-> "X", KeyY |-> "Y",
     KeyZ |-> "Z",
     Backslash |-> "backslash", BracketLeft |-> "bracketleft",
     BracketRight |-> "bracketright", Backquote |-> "quoteleft",
     Comma |-> "comma",
     Digit0 |-> "0", Digit1 |-> "1", Digit2 |-> "2", Digit3 |-> "3",
     Digit4 |-> "4", Digit5 |-> "5", Digit6 |-> "6", Digit7 |-> "7",
     Digit8 |-> "8", Digit9 |-> "9",
     Equal |-> "equal", Minus |-> "minus", Period |-> "period",
     Quote |-> "leftsinglequotemark", Semicolon |-> "semicolon",
     Slash |-> "slash", Backspace |-> "BackSpace", CapsLock |-> "Caps_Lock",
     Enter |-> "Return", Space |-> "space", Tab |-> "Tab",
     Delete |-> "Delete", End |-> "End", Home |-> "Home", Insert |-> "Insert",
     PageDown |-> "Page_Down", PageUp |-> "Page_Up",
     ArrowDown |-> "Down", ArrowLeft |-> "Left", ArrowRight |-> "Right",
     ArrowUp |-> "Up",
     Numpad0 |-> "KP_0", Numpad1 |-> "KP_1", Numpad2 |-> "KP_2",
     Numpad3 |-> "KP_3", Numpad4 |-> "KP_4", Numpad5 |-> "KP_5",
     Numpad6 |-> "KP_6", Numpad7 |-> "KP_7", Numpad8 |-> "KP_8",
     Numpad9 |-> "KP_9",
     NumpadAdd |-> "KP_Add", NumpadDecimal |-> "KP_Decimal",
     NumpadDivide |-> "KP_Divide", NumpadMultiply |-> "KP_Multiply",
     NumpadSubtract |-> "KP_Subtract",
     Escape |-> "Escape", PrintScreen |-> "Print", ScrollLock |-> "Scroll_Lock",
     NumLock |-> "F1",
     F1 |-> "F1", F2 |-> "F2", F3 |-> "F3", F4 |-> "F4", F5 |-> "F5",
     F6 |-> "F6", F7 |-> "F7", F8 |-> "F8", F9 |-> "F9", F10 |-> "F10",
     F11 |-> "F11", F12 |-> "F12",
     AudioVolumeDown |-> "XF86AudioLowerVolume",
     AudioVolumeMute |-> "XF86XK_AudioMute",
     AudioVolumeUp |-> "XF86XK_AudioRaiseVolume",
     MediaPlay |-> "XF86XK_AudioPlay", MediaPause |-> "XF86XK_AudioPause",
     MediaStop |-> "XF86XK_AudioStop", MediaTrackNext |-> "XF86XK_AudioNext",
     MediaTrackPrevious |-> "XF86XK_AudioPrev"]

\* Option<String>: None, or Some(s) as the one-element sequence <<s>>.
None == <<>>
Some(s) == <<s>>

\* A plausible slip: the wildcard arm falls back to the code's own name.
keycode_to_freedesktop_spec_anykey(key) ==
    IF key \in DOMAIN KeyTable THEN Some(KeyTable[key]) ELSE Some(key)

\* fn keycode_to_freedesktop_spec(key: Code) -> Option<String>
keycode_to_freedesktop_spec(key) ==
    IF key \in DOMAIN KeyTable THEN Some(KeyTable[key]) ELSE None

\* format!("{}+{}", modifiers, key)
xdg_shortcut(modifiers, key) == modifiers \o <<"+", key>>

\* --------------------------------------------------------- the inputs

\* HotKey { mods, key }: the values the callers pass in the runs.
HkCtrlShiftA == [mods |-> {"CONTROL", "SHIFT"}, key |-> "KeyA"]
\* F13 and Fn have no arm in keycode_to_freedesktop_spec.
HkF13 == [mods |-> {}, key |-> "F13"]
HkAltFn == [mods |-> {"ALT"}, key |-> "Fn"]
HotKeys == {HkCtrlShiftA, HkF13, HkAltFn}

\* The hotkeys the translation is evaluated for: every set of the modifier
\* flags with a letter, with NumLock and with a key that has no arm.
TrKeys == {"KeyA", "NumLock", "F13"}
TrHotKeys == [mods : SUBSET Modifiers, key : TrKeys]

\* The hotkeys handed to register / unregister, and the slices handed to
\* register_all / unregister_all, in the runs.
Singles == {HkCtrlShiftA, HkF13}
RegBatches == {<<HkCtrlShiftA, HkF13>>, <<HkF13, HkCtrlShiftA>>,
               <<HkF13, HkAltFn>>}
UnRegBatches == {<<HkF13, HkCtrlShiftA>>, <<HkF13, HkAltFn>>,
                 <<HkCtrlShiftA, HkF13>>}

\* ------------------------------------------------------------ results

\* crate::Result<()>: Ok(()) and the two per-operation errors the portal
\* manager builds.  why: what the FailedToRegister message was formatted from.
OkResult == [tag |-> "Ok", key |-> "", why |-> ""]
\* Error::FailedToRegister("... unknown scancode for this key: {hotkey.key}")
ErrUnknownKey(hotkey) ==
    [tag |-> "FailedToRegister", key |-> hotkey.key, why |-> "unknown scancode"]
\* Error::FailedToRegister(err.to_string()) for an ashpd error of the bind
ErrBackend == [tag |-> "FailedToRegister", key |-> "", why |-> "ashpd"]
\* Error::FailedToUnRegister(hotkey)
ErrUnRegister(hotkey) ==
    [tag |-> "FailedToUnRegister", key |-> hotkey.key, why |-> ""]
NoResult == [tag |-> "none", key |-> "", why |-> ""]

\* -------------------------------------------------------------- state

VARIABLES
    env,        \* std::env::var("XDG_SESSION_TYPE"): [ok, val]
    mgr,        \* the GlobalHotKeyManager value: "unbuilt", "X11", "Wayland",
                \* "error" (new returned Err) or "dropped"
    dpc,        \* where the thread running events_processor is
    session,    \* the portal session of Xdgs: "none", "failed", "open", "closed"
    hotkeys,    \* events_processor's `hotkeys: Vec<u32>`
    bound,      \* the shortcuts the portal holds for the session: [id, trigger]
    queue,      \* ThreadMessages in the unbounded channel thread_tx -> thread_rx
    rxAlive,    \* thread_rx has not been dropped
    cur,        \* the batch command the dispatcher is in, with its reply Sender
    chan,       \* per caller: the bounded(1) reply channel of its call
    cpc,        \* per caller: "idle" or "waiting" (in rx.recv())
    cop,        \* per caller: the call it made last
    cres,       \* per caller: what its last call returned
    cvia,       \* per caller: how rx.recv() ended: "reply" or "closed"
    sink,       \* GlobalHotKeyEvent::send: the events published, in order
    unheard,    \* Activated / Deactivated signals the portal emitted that no
                \* stream of the dispatcher received
    ncalls,     \* facade calls made
    nreg,       \* hotkeys handed to register and register_all so far
    nbind,      \* bind_shortcuts calls issued to the portal
    regOk,      \* <<hotkey, id>>: register(hotkey) returned Ok, id bound for it
    released,   \* ids of regOk whose hotkey a later unregister returned Ok for
    lateEvent,  \* an event for a released id was published after that return
    bres,       \* per caller: what the elements of its latest batch call came
                \* to in the dispatcher, in the order they were attempted
    tr          \* evaluations of the translation at the head of
                \* register_hotkey: [hotkey, outs]

vars == <<env, mgr, dpc, session, hotkeys, bound, queue, rxAlive, cur, chan,
          cpc, cop, cres, cvia, sink, unheard, ncalls, nreg, nbind, regOk,
          released, lateEvent, bres, tr>>

\* No identifier: a value outside the identifier space.
NoId == NumIds
NoCmd == [kind |-> "none", keys |-> <<>>, c |-> "", i |-> 0,
          pending |-> NoResult, rx |-> FALSE, sends |-> 0]
NoOp == [op |-> "none", keys |-> <<>>, had |-> {}]
\* bounded(1): nothing buffered, the Sender alive or not; id: the identifier
\* the dispatcher bound for the command (kept for the claims only).
NewChan(tx) == [buf |-> <<>>, tx |-> tx, id |-> NoId]

\* hotkeys.contains(&id)
Contains(v, id) == \E k \in 1 .. Len(v) : v[k] = id

\* The dispatcher is in its loop (state Running of the design).
RunningPcs == {"loop", "batch", "send", "activated", "deactivated"}
Running == dpc \in RunningPcs

\* Before GlobalHotKeyManager::new: nothing is built, no call was made.
Unbuilt ==
    /\ env \in {[ok |-> TRUE, val |-> "x11"], [ok |-> TRUE, val |-> "wayland"],
                [ok |-> TRUE, val |-> "tty"], [ok |-> FALSE, val |-> ""]}
    /\ mgr = "unbuilt"
    /\ dpc = "unspawned"
    /\ session = "none"
    /\ hotkeys = <<>>
    /\ bound = {}
    /\ queue = <<>>
    /\ rxAlive = FALSE
    /\ cur = NoCmd
    /\ chan = [c \in Callers |-> NewChan(FALSE)]
    /\ cpc = [c \in Callers |-> "idle"]
    /\ cop = [c \in Callers |-> NoOp]
    /\ cres = [c \in Callers |-> NoResult]
    /\ cvia = [c \in Callers |-> "none"]
    /\ sink = <<>>
    /\ unheard = 0
    /\ ncalls = 0
    /\ nreg = 0
    /\ nbind = 0
    /\ regOk = {}
    /\ released = {}
    /\ lateEvent = FALSE
    /\ bres = [c \in Callers |-> <<>>]

\* No translation is looked at in the runs of the manager.
NoHotKey == [mods |-> {}, key |-> ""]
Init == Unbuilt /\ tr = [hotkey |-> NoHotKey, outs |-> <<>>]

\* ------------------------------------------------ Manager construction

\* A plausible slip: an unknown session type falls through to the portal.
SelectBackend_fallback(e) ==
    IF e.ok
    THEN CASE e.val = "x11" -> "x11"
           [] OTHER -> "wayland"
    ELSE "OsError:Other"

\* The match of linux::GlobalHotKeyManager::new on the session-type
\* indicator: the backend whose constructor is called, or the OsError built.
SelectBackend(e) ==
    IF e.ok
    THEN CASE e.val = "x11" -> "x11"
           [] e.val = "wayland" -> "wayland"
           [] OTHER -> "OsError:NotFound"
    ELSE "OsError:Other"

\* x11::GlobalHotKeyManager::new(): the synchronous backend reports a failed
\* construction to its caller; its manager is otherwise not modelled.
x11_new == {"Ok", "Err"}

\* linux::GlobalHotKeyManager::new with wayland::GlobalHotKeyManager::new:
\* unbounded(), thread::spawn(events_processor), Ok(Self { thread_tx }).
New ==
    /\ mgr = "unbuilt"
    /\ LET b == SelectBackend(env) IN
       \/ /\ b = "x11"
          /\ \E r \in x11_new : mgr' = IF r = "Ok" THEN "X11" ELSE "error"
          /\ UNCHANGED <<dpc, rxAlive>>
       \/ /\ b = "wayland"
          /\ mgr' = "Wayland"
          /\ dpc' = "init"
          /\ rxAlive' = TRUE
       \/ /\ b \notin {"x11", "wayland"}
          /\ mgr' = "error"
          /\ UNCHANGED <<dpc, rxAlive>>
    /\ UNCHANGED <<tr, bres, env, session, hotkeys, bound, queue, cur, chan, cpc, cop,
                   cres, cvia, sink, unheard, ncalls, nreg, nbind, regOk,
                   released, lateEvent>>

\* --------------------------------------------------------- the facade

\* The ThreadMessage each facade method sends.
MsgKind(op) ==
    CASE op = "register" -> "RegisterHotKey"
      [] op = "register_all" -> "RegisterHotKeys"
      [] op = "unregister" -> "UnRegisterHotKey"
      [] op = "unregister_all" -> "UnRegisterHotKeys"

\* The first half of register / unregister / register_all / unregister_all:
\* bounded(1), then `let _ = self.thread_tx.send(..)`.  A send to a dropped
\* thread_rx fails and the message, with the reply Sender in it, is dropped.
Call(c, op, keys) ==
    /\ mgr = "Wayland"
    /\ cpc[c] = "idle"
    /\ ncalls < MaxCalls
    /\ ncalls' = ncalls + 1
    /\ LET n == IF op \in {"register", "register_all"} THEN Len(keys) ELSE 0
       IN  nreg + n <= MaxReg /\ nreg' = nreg + n
    /\ cpc' = [cpc EXCEPT ![c] = "waiting"]
    /\ cop' = [cop EXCEPT ![c] =
                 [op |-> op, keys |-> keys,
                  had |-> {p \in regOk : op = "unregister" /\ p[1] = keys[1]}]]
    /\ chan' = [chan EXCEPT ![c] = NewChan(rxAlive)]
    /\ queue' = IF rxAlive
                THEN Append(queue, [kind |-> MsgKind(op), keys |-> keys, c |-> c])
                ELSE queue
    /\ bres' = [bres EXCEPT ![c] = <<>>]
    /\ UNCHANGED <<tr, env, mgr, dpc, session, hotkeys, bound, rxAlive, cur, cres,
                   cvia, sink, unheard, nbind, regOk, released, lateEvent>>

Register(c) == \E h \in Singles : Call(c, "register", <<h>>)
UnRegister(c) == \E h \in Singles : Call(c, "unregister", <<h>>)
RegisterAll(c) == \E hs \in RegBatches : Call(c, "register_all", hs)
UnRegisterAll(c) == \E hs \in UnRegBatches : Call(c, "unregister_all", hs)

\* rx.recv() returns once a reply is buffered, or with Err once the channel
\* is empty and every Sender of it is gone.
CanRecv(ch) == ch.buf # <<>> \/ ~ch.tx
Recv(ch) == IF ch.buf # <<>> THEN Some(Head(ch.buf)) ELSE None

\* What a facade method makes of it if every outcome of recv were passed on.
FacadeResult_closedIsError(received) ==
    IF received # None THEN received[1]
    ELSE [tag |-> "ChannelClosed", key |-> "", why |-> ""]

\* `if let Ok(result) = rx.recv() { result?; }  Ok(())`
FacadeResult(received) ==
    IF received # None THEN received[1] ELSE OkResult

\* The second half of a facade method: rx.recv(), the return, and the drop
\* of the Receiver (the dispatcher may still hold the Sender of a batch).
Return(c) ==
    /\ cpc[c] = "waiting"
    /\ CanRecv(chan[c])
    /\ LET got == Recv(chan[c])
           res == FacadeResult(got)
           nowOk == IF cop[c].op = "register" /\ got # None /\ res = OkResult
                    THEN {<<cop[c].keys[1], chan[c].id>>} ELSE {}
           nowReleased == IF cop[c].op = "unregister" /\ res = OkResult
                          THEN {p[2] : p \in cop[c].had} ELSE {}
       IN /\ cres' = [cres EXCEPT ![c] = res]
          /\ cvia' = [cvia EXCEPT ![c] = IF got # None THEN "reply" ELSE "closed"]
          /\ regOk' = regOk \cup nowOk
          /\ released' = released \cup nowReleased
    /\ cpc' = [cpc EXCEPT ![c] = "idle"]
    /\ chan' = [chan EXCEPT ![c] = NewChan(FALSE)]
    /\ cur' = IF cur.kind # "none" /\ cur.c = c
              THEN [cur EXCEPT !.rx = FALSE] ELSE cur
    /\ UNCHANGED <<tr, bres, env, mgr, dpc, session, hotkeys, bound, queue, rxAlive, cop,
                   sink, unheard, ncalls, nreg, nbind, lateEvent>>

\* impl Drop for GlobalHotKeyManager: `let _ = self.thread_tx.send(DropThread)`.
\* The value is dropped by its owner, so no call on it is in progress.
DropManager ==
    /\ mgr = "Wayland"
    /\ \A c \in Callers : cpc[c] = "idle"
    /\ mgr' = "dropped"
    /\ queue' = IF rxAlive
                THEN Append(queue, [kind |-> "DropThread", keys |-> <<>>, c |-> ""])
                ELSE queue
    /\ UNCHANGED <<tr, bres, env, dpc, session, hotkeys, bound, rxAlive, cur, chan, cpc,
                   cop, cres, cvia, sink, unheard, ncalls, nreg, nbind, regOk,
                   released, lateEvent>>


\* ------------------------------------------------------ the portal bridge

\* A plausible slip: the loop leaves with the first id drawn.
IdAccepted_unchecked(v, id) == TRUE

\* The exit test of the loop in AsyncXdgs::register:
\* `hotkeys.is_empty() || !hotkeys.contains(&id)`.
IdAccepted(v, id) == Len(v) = 0 \/ ~Contains(v, id)

\* A plausible slip: hotkeys.push(id) placed before the bind is answered.
XdgsRegister_pushFirst(trigger, v) ==
    {[res |-> OkResult, hotkeys |-> Append(v, id),
      bind |-> {[id |-> id, trigger |-> trigger]}, calls |-> 1, id |-> id]
        : id \in {i \in Ids : IdAccepted(v, i)}}
    \cup
    {[res |-> ErrBackend, hotkeys |-> Append(v, id), bind |-> {}, calls |-> 1,
      id |-> NoId]
        : id \in {i \in Ids : IdAccepted(v, i)}}

\* A plausible slip: the accepted bind is not followed by hotkeys.push(id).
XdgsRegister_nopush(trigger, v) ==
    {[res |-> OkResult, hotkeys |-> v,
      bind |-> {[id |-> id, trigger |-> trigger]}, calls |-> 1, id |-> id]
        : id \in {i \in Ids : IdAccepted(v, i)}}
    \cup
    {[res |-> ErrBackend, hotkeys |-> v, bind |-> {}, calls |-> 1, id |-> NoId]
        : id \in {i \in Ids : IdAccepted(v, i)}}

\* What one run of Xdgs::register (block_on of AsyncXdgs::register) can come
\* to: the loop leaves with a random id it accepts, bind_shortcuts is called
\* once, and the portal's answer decides between push + Ok and the
\* FailedToRegister error.  [res, hotkeys, bind, id]
XdgsRegister(trigger, v) ==
    {[res |-> OkResult, hotkeys |-> Append(v, id),
      bind |-> {[id |-> id, trigger |-> trigger]}, calls |-> 1, id |-> id]
        : id \in {i \in Ids : IdAccepted(v, i)}}
    \cup
    {[res |-> ErrBackend, hotkeys |-> v, bind |-> {}, calls |-> 1, id |-> NoId]
        : id \in {i \in Ids : IdAccepted(v, i)}}

\* fn register_hotkey(xdgs, hotkeys, hotkey): the outcomes it can have.
register_hotkey(v, hotkey) ==
    LET modifiers == modifiers_to_freedesktop_spec(hotkey.mods)
        key == keycode_to_freedesktop_spec(hotkey.key)
    IN  IF key # None
        THEN XdgsRegister(xdg_shortcut(modifiers, key[1]), v)
        ELSE {[res |-> ErrUnknownKey(hotkey), hotkeys |-> v, bind |-> {},
               calls |-> 0, id |-> NoId]}

\* AsyncXdgs::unregister is `todo!()`: driving it panics.
Panic == [tag |-> "panic", key |-> "", why |-> "not yet implemented"]

\* fn unregister_hotkey(xdgs, hotkeys, hotkey): Xdgs::unregister for a key
\* the table knows, FailedToUnRegister for one it does not.
unregister_hotkey(v, hotkey) ==
    LET key == keycode_to_freedesktop_spec(hotkey.key)
    IN  IF key # None THEN Panic ELSE ErrUnRegister(hotkey)

\* ------------------------------------------------------ the dispatcher

\* Dropping the Sender of the reply channel of caller c (rx: its Receiver
\* still exists): the channel is disconnected, what is buffered stays.
DropTx(ch, c, rx) == IF rx THEN [ch EXCEPT ![c].tx = FALSE] ELSE ch

\* `let _ = tx.send(r)` on a channel with room: the reply is buffered; a send
\* to a dropped Receiver fails and r is dropped.
Buffer(ch, c, rx, r, id) ==
    IF rx THEN [ch EXCEPT ![c].buf = <<r>>, ![c].id = id] ELSE ch

\* A plausible slip: the send waits for room whether or not anyone is left
\* to make it.
CanSend_needsReceiver(ch, c, rx) == rx /\ ch[c].buf = <<>>

\* A plausible slip: the reply channel taken for one that always has room,
\* a later reply replacing the one not yet received.
CanSend_unbounded(ch, c, rx) == TRUE

\* tx.send(..) on the bounded(1) channel returns once there is room for the
\* message, or, with an error, once the Receiver is gone; until then it waits.
CanSend(ch, c, rx) == ~rx \/ ch[c].buf = <<>>

\* What element cur.i of the batch of caller c came to, noted for c as long
\* as that batch is still the latest call of c.
Outcome(b, c, r) ==
    IF cur.rx \/ cpc[c] = "idle" THEN [b EXCEPT ![c] = Append(@, r)] ELSE b

\* A plausible slip: the queued messages outlive thread_rx (a leaked queue).
DropQueued_leak(ch, q) == ch

\* Dropping thread_rx drops the messages still queued, each with its Sender.
DropQueued(ch, q) ==
    [c \in Callers |->
        IF \E k \in 1 .. Len(q) : q[k].c = c
        THEN [ch[c] EXCEPT !.tx = FALSE] ELSE ch[c]]

\* `if let Ok(xdg) = Xdgs::new()`: the session is established.
InitOk ==
    /\ dpc = "init"
    /\ session' = "open"
    /\ dpc' = "loop"
    /\ UNCHANGED <<tr, bres, env, mgr, hotkeys, bound, queue, rxAlive, cur, chan, cpc,
                   cop, cres, cvia, sink, unheard, ncalls, nreg, nbind, regOk,
                   released, lateEvent>>

\* Xdgs::new() fails: the else branch (the eprintln!), then events_processor
\* returns: hotkeys is dropped, then thread_rx with the messages in it.
InitFail ==
    /\ dpc = "init"
    /\ session' = "failed"
    /\ hotkeys' = <<>>
    /\ rxAlive' = FALSE
    /\ chan' = DropQueued(chan, queue)
    /\ queue' = <<>>
    /\ dpc' = "dead"
    /\ UNCHANGED <<tr, bres, env, mgr, bound, cur, cpc, cop, cres, cvia, sink, unheard,
                   ncalls, nreg, nbind, regOk, released, lateEvent>>

\* thread_rx.try_recv() finds the queue empty.
RecvNone ==
    /\ dpc = "loop"
    /\ queue = <<>>
    /\ dpc' = "activated"
    /\ UNCHANGED <<tr, bres, env, mgr, session, hotkeys, bound, queue, rxAlive, cur, chan,
                   cpc, cop, cres, cvia, sink, unheard, ncalls, nreg, nbind,
                   regOk, released, lateEvent>>

\* The RegisterHotKey arm: tx.send(register_hotkey(..)), tx dropped.
DoRegisterHotKey ==
    /\ dpc = "loop"
    /\ queue # <<>>
    /\ Head(queue).kind = "RegisterHotKey"
    /\ LET msg == Head(queue) IN
       \E o \in register_hotkey(hotkeys, msg.keys[1]) :
          /\ hotkeys' = o.hotkeys
          /\ bound' = bound \cup o.bind
          /\ nbind' = nbind + o.calls
          /\ chan' = DropTx(Buffer(chan, msg.c, TRUE, o.res, o.id), msg.c, TRUE)
    /\ queue' = Tail(queue)
    /\ dpc' = "activated"
    /\ UNCHANGED <<tr, bres, env, mgr, session, rxAlive, cur, cpc, cop, cres, cvia, sink,
                   unheard, ncalls, nreg, regOk, released, lateEvent>>

\* The UnRegisterHotKey arm: tx.send(unregister_hotkey(..)), tx dropped; or
\* the panic of unregister_hotkey, whose unwinding drops tx first.
DoUnRegisterHotKey ==
    /\ dpc = "loop"
    /\ queue # <<>>
    /\ Head(queue).kind = "UnRegisterHotKey"
    /\ LET msg == Head(queue)
           r == unregister_hotkey(hotkeys, msg.keys[1])
       IN  IF r = Panic
           THEN /\ chan' = DropTx(chan, msg.c, TRUE)
                /\ dpc' = "unwinding"
           ELSE /\ chan' = DropTx(Buffer(chan, msg.c, TRUE, r, NoId), msg.c, TRUE)
                /\ dpc' = "activated"
    /\ queue' = Tail(queue)
    /\ UNCHANGED <<tr, bres, env, mgr, session, hotkeys, bound, rxAlive, cur, cpc, cop,
                   cres, cvia, sink, unheard, ncalls, nreg, nbind, regOk,
                   released, lateEvent>>

\* The RegisterHotKeys / UnRegisterHotKeys arms are entered: `for hotkey in keys`.
BeginBatch ==
    /\ dpc = "loop"
    /\ queue # <<>>
    /\ Head(queue).kind \in {"RegisterHotKeys", "UnRegisterHotKeys"}
    /\ cur' = [kind |-> Head(queue).kind, keys |-> Head(queue).keys,
               c |-> Head(queue).c, i |-> 1, pending |-> NoResult, rx |-> TRUE,
               sends |-> 0]
    /\ queue' = Tail(queue)
    /\ dpc' = "batch"
    /\ UNCHANGED <<tr, bres, env, mgr, session, hotkeys, bound, rxAlive, chan, cpc, cop,
                   cres, cvia, sink, unheard, ncalls, nreg, nbind, regOk,
                   released, lateEvent>>

\* One turn of `for hotkey in keys` in the RegisterHotKeys arm: an Err is
\* to be sent at once; after the last element Ok(()) is to be sent.
BatchRegister ==
    /\ dpc = "batch"
    /\ cur.kind = "RegisterHotKeys"
    /\ IF cur.i <= Len(cur.keys)
       THEN \E o \in register_hotkey(hotkeys, cur.keys[cur.i]) :
               /\ hotkeys' = o.hotkeys
               /\ bound' = bound \cup o.bind
               /\ nbind' = nbind + o.calls
               /\ bres' = Outcome(bres, cur.c, o.res)
               /\ IF o.res # OkResult
                  THEN /\ cur' = [cur EXCEPT !.i = @ + 1, !.pending = o.res]
                       /\ dpc' = "send"
                  ELSE /\ cur' = [cur EXCEPT !.i = @ + 1]
                       /\ dpc' = "batch"
       ELSE /\ cur' = [cur EXCEPT !.i = @ + 1, !.pending = OkResult]
            /\ dpc' = "send"
            /\ UNCHANGED <<hotkeys, bound, nbind, bres>>
    /\ UNCHANGED <<tr, env, mgr, session, queue, rxAlive, chan, cpc, cop, cres,
                   cvia, sink, unheard, ncalls, nreg, regOk, released, lateEvent>>

\* One turn of `for hotkey in keys` in the UnRegisterHotKeys arm.
BatchUnRegister ==
    /\ dpc = "batch"
    /\ cur.kind = "UnRegisterHotKeys"
    /\ IF cur.i <= Len(cur.keys)
       THEN LET r == unregister_hotkey(hotkeys, cur.keys[cur.i]) IN
            IF r = Panic
            THEN /\ chan' = DropTx(chan, cur.c, cur.rx)
                 /\ cur' = NoCmd
                 /\ dpc' = "unwinding"
                 /\ UNCHANGED bres
            ELSE /\ cur' = [cur EXCEPT !.i = @ + 1, !.pending = r]
                 /\ dpc' = "send"
                 /\ bres' = Outcome(bres, cur.c, r)
                 /\ UNCHANGED chan
       ELSE /\ cur' = [cur EXCEPT !.i = @ + 1, !.pending = OkResult]
            /\ dpc' = "send"
            /\ UNCHANGED <<chan, bres>>
    /\ UNCHANGED <<tr, env, mgr, session, hotkeys, bound, queue, rxAlive, cpc, cop,
                   cres, cvia, sink, unheard, ncalls, nreg, nbind, regOk,
                   released, lateEvent>>

\* `let _ = tx.send(..)` inside a batch arm.  On the bounded(1) channel the
\* send waits while a reply is buffered and the Receiver exists.  After the
\* send of Ok(()) the arm ends and tx is dropped.
BatchSend ==
    /\ dpc = "send"
    /\ CanSend(chan, cur.c, cur.rx)
    /\ LET sent == Buffer(chan, cur.c, cur.rx, cur.pending, NoId) IN
       IF cur.i > Len(cur.keys) + 1
       THEN /\ chan' = DropTx(sent, cur.c, cur.rx)
            /\ cur' = NoCmd
            /\ dpc' = "activated"
       ELSE /\ chan' = sent
            /\ cur' = [cur EXCEPT !.pending = NoResult, !.sends = @ + 1]
            /\ dpc' = "batch"
    /\ UNCHANGED <<tr, bres, env, mgr, session, hotkeys, bound, queue, rxAlive, cpc, cop,
                   cres, cvia, sink, unheard, ncalls, nreg, nbind, regOk,
                   released, lateEvent>>

\* A plausible slip: Xdgs without its Drop impl; dropping it leaves the
\* session as it is.
DropXdgs_noclose(s) == s

\* impl Drop for Xdgs: block_on(self.inner.drop()), which is
\* `let _ = self.session.close().await`.
DropXdgs(s) == "closed"

\* The DropThread arm: drop(xdg) runs Drop for Xdgs, which closes the
\* session (the portal releases its shortcuts); then `return`: hotkeys is
\* dropped, then thread_rx with the messages still in it.
DoDropThread ==
    /\ dpc = "loop"
    /\ queue # <<>>
    /\ Head(queue).kind = "DropThread"
    /\ session' = DropXdgs(session)
    /\ bound' = {}
    /\ hotkeys' = <<>>
    /\ rxAlive' = FALSE
    /\ chan' = DropQueued(chan, Tail(queue))
    /\ queue' = <<>>
    /\ dpc' = "dead"
    /\ UNCHANGED <<tr, bres, env, mgr, cur, cpc, cop, cres, cvia, sink, unheard, ncalls,
                   nreg, nbind, regOk, released, lateEvent>>

\* The rest of the unwinding of a panic out of events_processor, after the
\* arm's tx: xdg is dropped (Drop for Xdgs closes the session), then
\* hotkeys, then thread_rx with the messages still in it.
Unwind ==
    /\ dpc = "unwinding"
    /\ session' = DropXdgs(session)
    /\ bound' = {}
    /\ hotkeys' = <<>>
    /\ rxAlive' = FALSE
    /\ chan' = DropQueued(chan, queue)
    /\ queue' = <<>>
    /\ dpc' = "dead"
    /\ UNCHANGED <<tr, bres, env, mgr, cur, cpc, cop, cres, cvia, sink, unheard, ncalls,
                   nreg, nbind, regOk, released, lateEvent>>

\* ---------------------------------------------------- the event polls

BoundIds == {b.id : b \in bound}

\* xdg.activated(): receive_activated() subscribes, ok.next().await takes the
\* next Activated signal of the session, which is published as Pressed.
Activated ==
    /\ dpc = "activated"
    /\ Len(sink) + unheard < MaxSignals
    /\ \E id \in BoundIds :
          /\ sink' = Append(sink, [id |-> id, state |-> "Pressed"])
          /\ lateEvent' = (lateEvent \/ id \in released)
    /\ dpc' = "deactivated"
    /\ UNCHANGED <<tr, bres, env, mgr, session, hotkeys, bound, queue, rxAlive, cur, chan,
                   cpc, cop, cres, cvia, unheard, ncalls, nreg, nbind, regOk,
                   released>>

\* xdg.activated() without an event: receive_activated() returns Err, or the
\* stream ends; Xdgs::activated discards the Result.
ActivatedNone ==
    /\ dpc = "activated"
    /\ dpc' = "deactivated"
    /\ UNCHANGED <<tr, bres, env, mgr, session, hotkeys, bound, queue, rxAlive, cur, chan,
                   cpc, cop, cres, cvia, sink, unheard, ncalls, nreg, nbind,
                   regOk, released, lateEvent>>

\* xdg.deactivated(), the same for Deactivated / Released; then the sleep
\* and the next turn of the loop.
Deactivated ==
    /\ dpc = "deactivated"
    /\ Len(sink) + unheard < MaxSignals
    /\ \E id \in BoundIds :
          /\ sink' = Append(sink, [id |-> id, state |-> "Released"])
          /\ lateEvent' = (lateEvent \/ id \in released)
    /\ dpc' = "loop"
    /\ UNCHANGED <<tr, bres, env, mgr, session, hotkeys, bound, queue, rxAlive, cur, chan,
                   cpc, cop, cres, cvia, unheard, ncalls, nreg, nbind, regOk,
                   released>>

DeactivatedNone ==
    /\ dpc = "deactivated"
    /\ dpc' = "loop"
    /\ UNCHANGED <<tr, bres, env, mgr, session, hotkeys, bound, queue, rxAlive, cur, chan,
                   cpc, cop, cres, cvia, sink, unheard, ncalls, nreg, nbind,
                   regOk, released, lateEvent>>

\* The portal emits a signal while the dispatcher is not inside the poll for
\* it: no stream of the dispatcher is subscribed, nothing is published.
Unheard ==
    /\ session = "open"
    /\ Len(sink) + unheard < MaxSignals
    /\ \E id \in BoundIds, st \in {"Pressed", "Released"} :
          /\ ~(st = "Pressed" /\ dpc = "activated")
          /\ ~(st = "Released" /\ dpc = "deactivated")
    /\ unheard' = unheard + 1
    /\ UNCHANGED <<tr, bres, env, mgr, dpc, session, hotkeys, bound, queue, rxAlive, cur,
                   chan, cpc, cop, cres, cvia, sink, ncalls, nreg, nbind, regOk,
                   released, lateEvent>>

\* ------------------------------------------------------ specifications

Dispatcher ==
    \/ InitOk
    \/ InitFail
    \/ RecvNone
    \/ DoRegisterHotKey
    \/ DoUnRegisterHotKey
    \/ BeginBatch
    \/ BatchRegister
    \/ BatchUnRegister
    \/ BatchSend
    \/ DoDropThread
    \/ Unwind
    \/ Activated
    \/ ActivatedNone
    \/ Deactivated
    \/ DeactivatedNone

Next ==
    \/ New
    \/ \E c \in Callers : Register(c)
    \/ \E c \in Callers : UnRegister(c)
    \/ \E c \in Callers : RegisterAll(c)
    \/ \E c \in Callers : UnRegisterAll(c)
    \/ \E c \in Callers : Return(c)
    \/ DropManager
    \/ Dispatcher
    \/ Unheard

Spec == Init /\ [][Next]_vars

\* The head of register_hotkey by itself: `let modifiers = ..; let key = ..;`
\* evaluated for a hotkey, as every register of that hotkey does.
Translate ==
    /\ tr.hotkey # NoHotKey
    /\ Len(tr.outs) < MaxTranslations
    /\ tr' = [tr EXCEPT !.outs =
                 Append(@, [modifiers |-> modifiers_to_freedesktop_spec(tr.hotkey.mods),
                            key |-> keycode_to_freedesktop_spec(tr.hotkey.key)])]
    /\ UNCHANGED <<env, mgr, dpc, session, hotkeys, bound, queue, rxAlive, cur,
                   chan, cpc, cop, cres, cvia, sink, unheard, ncalls, nreg,
                   nbind, regOk, released, lateEvent, bres>>

TranslateInit ==
    /\ Unbuilt
    /\ tr \in {[hotkey |-> h, outs |-> <<>>] : h \in TrHotKeys}

\* The translation applied to each hotkey of TrHotKeys.
TranslateSpec == TranslateInit /\ [][Translate]_vars

\* The steps of events_processor that wait for nothing outside the thread:
\* all but the two polls, which end when the portal's signal arrives (or the
\* stream fails).
OwnSteps ==
    \/ InitOk
    \/ InitFail
    \/ RecvNone
    \/ DoRegisterHotKey
    \/ DoUnRegisterHotKey
    \/ BeginBatch
    \/ BatchRegister
    \/ BatchUnRegister
    \/ BatchSend
    \/ DoDropThread
    \/ Unwind

\* Threads that can run do run: a caller leaves recv() once it can, and the
\* dispatcher thread takes its own steps, the unwinding of a panic among
\* them.  Nothing is assumed of the portal: when, and whether, it emits.
FairSpec ==
    /\ Spec
    /\ \A c \in Callers : WF_vars(Return(c))
    /\ WF_vars(Unwind)
    /\ WF_vars(OwnSteps)

\* -------------------------------------------------------------- claims

\* The trigger string register_hotkey binds a hotkey of a known key with.
Trigger(hotkey) ==
    xdg_shortcut(modifiers_to_freedesktop_spec(hotkey.mods),
                 keycode_to_freedesktop_spec(hotkey.key)[1])

\* The dispatcher takes a command of one of the given kinds off the queue.
Takes(kinds) ==
    /\ dpc = "loop"
    /\ queue # <<>>
    /\ Head(queue).kind \in kinds
    /\ queue' = Tail(queue)

\* C1: a facade call whose reply channel was closed before any reply was
\* received (the command never reached the dispatcher, or the dispatcher
\* went away) returns an error, never success.
C1_CommFailureIsError ==
    \A c \in Callers :
        (cpc[c] = "idle" /\ cvia[c] = "closed") => cres[c].tag # "Ok"

\* C2: no manager handle exists while its dispatcher failed to establish
\* the portal session.
C2_NoManagerWithoutSession ==
    ~(mgr = "Wayland" /\ session = "failed")

\* C3: once the destruction of the manager has completed, the dispatcher
\* has closed the backend session (or never held one).
C3_DropWaitsForClose ==
    mgr = "dropped" => session \in {"closed", "failed"}

\* C4: once unregister(h) has returned success after register(h) returned
\* success, the identifier bound for h is not in the Active Identifier Set
\* and no event for it is published any more.
C4_UnregisteredIdGone ==
    \A id \in released : ~Contains(hotkeys, id) /\ ~lateEvent

\* C5: the dispatcher answers a register of a key without an entry in the
\* table with the FailedToRegister (unknown scancode) error, issues no bind,
\* leaves the identifier set and the portal's bindings as they are and stays
\* Running; the caller returns that error.
C5_UnsupportedKey ==
    /\ [][(Takes({"RegisterHotKey"})
           /\ Head(queue).keys[1].key \notin DOMAIN KeyTable)
          => /\ chan'[Head(queue).c].buf = <<ErrUnknownKey(Head(queue).keys[1])>>
             /\ nbind' = nbind
             /\ hotkeys' = hotkeys
             /\ bound' = bound
             /\ dpc' \in RunningPcs
             /\ session' = "open"]_vars
    /\ [](\A c \in Callers :
            (cpc[c] = "idle" /\ cop[c].op = "register" /\ cvia[c] = "reply"
             /\ cop[c].keys[1].key \notin DOMAIN KeyTable)
            => cres[c] = ErrUnknownKey(cop[c].keys[1]))

\* C5, reached: with a binding in place, register of F13 has returned the
\* unknown-scancode error and the dispatcher is Running.
C5_Witness ==
    \E c \in Callers :
        /\ cpc[c] = "idle"
        /\ cop[c] = [op |-> "register", keys |-> <<HkF13>>, had |-> {}]
        /\ cres[c] = ErrUnknownKey(HkF13)
        /\ Len(hotkeys) = 1
        /\ nbind = 1
        /\ Running

\* C6: whatever a single register or unregister command comes to, the
\* dispatcher answers it and stays Running with its session open.
C6_FailureKeepsRunning ==
    [][Takes({"RegisterHotKey", "UnRegisterHotKey"})
       => /\ chan'[Head(queue).c].buf # <<>>
          /\ dpc' \in RunningPcs
          /\ session' = "open"]_vars

\* C7: the Active Identifier Set never holds an identifier twice.
C7_NoDuplicateIds ==
    \A i, j \in 1 .. Len(hotkeys) : i # j => hotkeys[i] # hotkeys[j]

\* C7, reached: an identifier was allocated while the set was not empty.
C7_Witness == Len(hotkeys) >= 2

\* C8: a register of a hotkey whose trigger is already bound either is
\* answered Ok, the set gaining a fresh identifier and the portal holding
\* two bindings of that trigger, or is answered with an error, the set and
\* the bindings unchanged; the caller returns that answer.
C8_SecondRegister ==
    /\ [][(Takes({"RegisterHotKey"})
           /\ Head(queue).keys[1].key \in DOMAIN KeyTable
           /\ \E b \in bound : b.trigger = Trigger(Head(queue).keys[1]))
          => LET h == Head(queue).keys[1]
                 reply == chan'[Head(queue).c].buf
             IN  \/ /\ reply = <<OkResult>>
                    /\ Len(hotkeys') = Len(hotkeys) + 1
                    /\ SubSeq(hotkeys', 1, Len(hotkeys)) = hotkeys
                    /\ ~Contains(hotkeys, hotkeys'[Len(hotkeys')])
                    /\ Cardinality({b \in bound' : b.trigger = Trigger(h)})
                         = Cardinality({b \in bound : b.trigger = Trigger(h)}) + 1
                    /\ \A b \in bound' : Contains(hotkeys', b.id)
                 \/ /\ reply # <<>>
                    /\ reply[1].tag = "FailedToRegister"
                    /\ hotkeys' = hotkeys
                    /\ bound' = bound]_vars
    /\ [](\A c \in Callers :
            (cpc[c] = "idle" /\ cop[c].op = "register" /\ cvia[c] = "reply"
             /\ cres[c] = OkResult)
            => \E p \in regOk : p[1] = cop[c].keys[1] /\ p[2] \in Ids)

\* C8, reached: both registers of Ctrl+Shift+A returned Ok and the set
\* holds two identifiers, both bound to its trigger.
C8_Witness ==
    /\ \A c \in Callers :
          /\ cpc[c] = "idle"
          /\ cop[c].op = "register"
          /\ cop[c].keys = <<HkCtrlShiftA>>
          /\ cres[c] = OkResult
          /\ cvia[c] = "reply"
    /\ Len(hotkeys) = 2
    /\ hotkeys[1] # hotkeys[2]
    /\ bound = {[id |-> hotkeys[k], trigger |-> Trigger(HkCtrlShiftA)] : k \in {1, 2}}

\* C9: the backend follows from the session-type indicator alone: "x11" the
\* synchronous one, "wayland" the portal one; for any other value, or
\* none, new returns an error and there is no manager, no dispatcher thread
\* and no session.
C9_BackendSelection ==
    /\ mgr = "X11" => (env.ok /\ env.val = "x11")
    /\ mgr \in {"Wayland", "dropped"} => (env.ok /\ env.val = "wayland")
    /\ dpc # "unspawned" => (env.ok /\ env.val = "wayland")
    /\ (~env.ok \/ env.val \notin {"x11", "wayland"})
         => /\ mgr \in {"unbuilt", "error"}
            /\ dpc = "unspawned"
            /\ ~rxAlive
            /\ session = "none"

\* C9, reached: new has returned the error for an unknown session type.
C9_Witness == mgr = "error" /\ env.ok /\ env.val = "tty"

\* C10: a caller waiting on its reply channel once the dispatcher thread
\* has ended is not blocked: a reply is buffered or the channel is
\* disconnected, so recv() returns and the call can return.  (Nothing
\* touches the channel after the thread has ended.)
C10_NoCallerStuck ==
    \A c \in Callers :
        (cpc[c] = "waiting" /\ dpc = "dead")
            => (CanRecv(chan[c]) /\ ENABLED Return(c))

\* C10, as a progress property under FairSpec: a caller waiting while the
\* dispatcher thread is unwinding or has ended does return.
C10_CallsReturn ==
    \A c \in Callers :
        (cpc[c] = "waiting" /\ dpc \in {"unwinding", "dead"})
            ~> (cpc[c] = "idle")

\* C10, reached: a register has returned through the disconnected channel
\* after the dispatcher, which had been Running, ended.
C10_Witness ==
    \E c \in Callers :
        /\ cpc[c] = "idle"
        /\ cvia[c] = "closed"
        /\ cop[c].op = "register"
        /\ dpc = "dead"
        /\ session = "closed"

\* C11: while the dispatcher is Running every signal the portal has emitted
\* for a bound identifier has been published, once, as the event with that
\* identifier and that state: none was emitted without being heard.
C11_EverySignalPublished ==
    Running =>
        /\ unheard = 0
        /\ \A k \in 1 .. Len(sink) : sink[k].id \in Ids

\* The batch calls of the facade.
BatchOps == {"register_all", "unregister_all"}

\* The first outcome of outs that is not Ok(()), Ok(()) if there is none.
FirstFailure(outs) ==
    IF \E k \in 1 .. Len(outs) : outs[k] # OkResult
    THEN outs[CHOOSE k \in 1 .. Len(outs) :
                 /\ outs[k] # OkResult
                 /\ \A j \in 1 .. (k - 1) : outs[j] = OkResult]
    ELSE OkResult

\* C12, as claimed: the result a batch call received from the dispatcher is
\* the outcome of the last element the dispatcher attempted.
C12_LastOutcomeWins ==
    \A c \in Callers :
        (cpc[c] = "idle" /\ cop[c].op \in BatchOps /\ cvia[c] = "reply"
         /\ Len(bres[c]) = Len(cop[c].keys))
        => cres[c] = bres[c][Len(bres[c])]

\* C12, amended: the result a batch call received from the dispatcher is
\* the outcome of the first element that failed; it is Ok(()) only if every
\* element was attempted and none failed.
C12_FirstFailureWins ==
    \A c \in Callers :
        (cpc[c] = "idle" /\ cop[c].op \in BatchOps /\ cvia[c] = "reply")
        => /\ cres[c] = FirstFailure(bres[c])
           /\ cres[c] = OkResult => Len(bres[c]) = Len(cop[c].keys)

\* C12, reached: register_all([F13, Ctrl+Shift+A]) has returned the error of
\* F13 although its last element was bound.
C12_Witness ==
    \E c \in Callers :
        /\ cpc[c] = "idle"
        /\ cop[c].op = "register_all"
        /\ cop[c].keys = <<HkF13, HkCtrlShiftA>>
        /\ bres[c] = <<ErrUnknownKey(HkF13), OkResult>>
        /\ cres[c] = ErrUnknownKey(HkF13)
        /\ Len(hotkeys) = 1

\* C13: a poll returns at once when the portal has no event, so a command
\* in the queue of a Running dispatcher is taken off it whether or not the
\* portal ever emits a signal.
C13_QueuedCommandDrained ==
    \A c \in Callers :
        (Running /\ \E k \in 1 .. Len(queue) : queue[k].c = c)
            ~> (\A k \in 1 .. Len(queue) : queue[k].c # c)

\* C14: while the dispatcher is Running the identifiers of the Active
\* Identifier Set are exactly the identifiers the portal holds a binding
\* of in the session; a step adds an identifier to the set only together
\* with its binding, one bind having been issued, and a bind that is
\* rejected changes neither.
C14_SetMatchesBindings ==
    /\ [](Running => {hotkeys[k] : k \in 1 .. Len(hotkeys)} = BoundIds)
    /\ [][(Running /\ nbind' # nbind)
          => /\ nbind' = nbind + 1
             /\ \/ /\ Len(hotkeys') = Len(hotkeys) + 1
                   /\ SubSeq(hotkeys', 1, Len(hotkeys)) = hotkeys
                   /\ bound' = bound \cup
                         {b \in bound' : b.id = hotkeys'[Len(hotkeys')]}
                   /\ hotkeys'[Len(hotkeys')] \notin BoundIds
                \/ /\ hotkeys' = hotkeys
                   /\ bound' = bound]_vars
    /\ [][(Running /\ nbind' = nbind /\ dpc' \in RunningPcs)
          => (hotkeys' = hotkeys /\ bound' = bound)]_vars

\* C14, reached: of two binds issued one was rejected and one accepted; the
\* set holds the one identifier the portal holds a binding of.
C14_Witness ==
    /\ dpc \in {"loop", "activated", "deactivated"}
    /\ nbind = 2
    /\ Len(hotkeys) = 1
    /\ BoundIds = {hotkeys[1]}

\* The queue is an ordered channel: a step changes it by appending one
\* message, by the dispatcher taking the oldest one at the top of its loop,
\* or by thread_rx being dropped with what is left.
C15_FifoOrder ==
    /\ [][queue' # queue
          => \/ /\ Len(queue') = Len(queue) + 1
                /\ SubSeq(queue', 1, Len(queue)) = queue
             \/ /\ dpc = "loop"
                /\ queue # <<>>
                /\ queue' = Tail(queue)
                /\ dpc' # "loop"
             \/ /\ queue' = <<>>
                /\ rxAlive /\ ~rxAlive']_vars
    /\ [](\A k \in 1 .. Len(queue) :
            queue[k].kind = "DropThread" => k = Len(queue))
    /\ [][dpc = "dead" => (nbind' = nbind /\ bound' = bound
                           /\ hotkeys' = hotkeys /\ sink' = sink)]_vars

\* C15: commands are taken oldest first, one per turn of the loop, DropThread
\* in its turn: when the dispatcher thread ends, every command that was
\* enqueued has been taken and processed, none is left in the queue, and
\* nothing enqueued later reaches the portal.
C15_ProcessedBeforeExit ==
    /\ C15_FifoOrder
    /\ [][(rxAlive /\ ~rxAlive' /\ session # "failed" /\ session # "none")
          => \A k \in 1 .. Len(queue) : queue[k].kind = "DropThread"]_vars

\* C16: the dispatcher leaves a batch command only after it has attempted
\* every element of the list, and it is Running then; each turn of the
\* RegisterHotKeys loop adds one identifier to the set if its bind was
\* accepted and none otherwise.
C16_BatchAttemptsAll ==
    /\ [][(cur.kind # "none" /\ cur'.kind = "none")
          => (cur.i >= Len(cur.keys) /\ dpc' \in RunningPcs)]_vars
    /\ [][cur.kind = "RegisterHotKeys"
          => Len(hotkeys') = Len(hotkeys) + Cardinality(bound' \ bound)]_vars

\* C17: the dispatcher does not send, nor attempt to send, a second message
\* on the reply channel of a command: whenever it is about to send in a
\* batch arm it has sent nothing for that command before.
C17_OneReplyPerCommand ==
    dpc = "send" => cur.sends = 0

\* The order the modifier names are written in.
ModifierOrder == <<"SHIFT", "LOGO", "ALT", "CTRL">>

\* The names a modifier set stands for: SUPER and META are both LOGO.
ModifierNames(mods) ==
    {n \in {"SHIFT"} : "SHIFT" \in mods}
    \cup {n \in {"LOGO"} : "SUPER" \in mods \/ "META" \in mods}
    \cup {n \in {"ALT"} : "ALT" \in mods}
    \cup {n \in {"CTRL"} : "CONTROL" \in mods}

\* C18: the modifier part of a hotkey is the names of its modifiers
\* separated by "+": names at the odd places, each a name of the set and
\* every name of the set among them, in the order SHIFT, LOGO, ALT, CTRL and
\* so none twice; every evaluation for the same hotkey gives the same.
C18_ModifierPart ==
    \A k \in 1 .. Len(tr.outs) :
        LET s == tr.outs[k].modifiers
            n == (Len(s) + 1) \div 2
            Place(name) == CHOOSE p \in 1 .. Len(ModifierOrder) :
                               ModifierOrder[p] = name
        IN  /\ s = <<>> \/ Len(s) = 2 * n - 1
            /\ \A j \in 1 .. Len(s) : (j % 2 = 0) => s[j] = "+"
            /\ {s[2 * j - 1] : j \in 1 .. n} = ModifierNames(tr.hotkey.mods)
            /\ \A i, j \in 1 .. n :
                  i < j => Place(s[2 * i - 1]) < Place(s[2 * j - 1])
            /\ tr.outs[k] = tr.outs[1]

\* C18, reached: the hotkey with all five flags has been translated twice,
\* to SHIFT+LOGO+ALT+CTRL.
C18_Witness ==
    /\ tr.hotkey.mods = Modifiers
    /\ Len(tr.outs) = 2
    /\ tr.outs[2].modifiers = <<"SHIFT", "+", "LOGO", "+", "ALT", "+", "CTRL">>

\* C19: once register_all or unregister_all has returned, the dispatcher
\* has attempted every element of the batch: it is never inside a batch
\* whose caller has returned with an element still to attempt.
C19_BatchDoneAtReturn ==
    (cur.kind # "none" /\ ~cur.rx) => cur.i > Len(cur.keys)

\* C20: a send of the dispatcher on a reply channel is never stuck: either
\* it can complete now (there is room, or the Receiver is gone and it
\* fails), or the caller of that command is in recv() with a reply buffered,
\* and can take it and return; and a send that completes has buffered its
\* message if the Receiver exists and changed nothing of the channel's
\* content if not.
C20_SendNotStuck ==
    /\ [](dpc = "send"
            => \/ ENABLED BatchSend
               \/ /\ cpc[cur.c] = "waiting"
                  /\ CanRecv(chan[cur.c])
                  /\ ENABLED Return(cur.c))
    /\ [][(dpc = "send" /\ dpc' # "send")
          => IF cur.rx THEN /\ chan[cur.c].buf = <<>>
                            /\ chan'[cur.c].buf = <<cur.pending>>
                       ELSE chan'[cur.c].buf = chan[cur.c].buf]_vars

\* C20, as a progress property under FairSpec: a send that the dispatcher
\* has started comes to an end.
C20_SendCompletes == (dpc = "send") ~> (dpc # "send")

\* C20, reached: the dispatcher is in a send that has to wait, the first
\* reply of the batch being buffered and its caller not yet out of recv().
C20_Witness ==
    /\ dpc = "send"
    /\ cur.rx
    /\ cur.sends = 1
    /\ chan[cur.c].buf # <<>>
    /\ cpc[cur.c] = "waiting"

\* C21: a dispatcher thread that was Running ends, on DropThread or by a
\* panic in a command, in a step that closes its open session; a session
\* is closed only from open and stays closed, and from then on no bind is
\* issued, no binding or identifier appears and no event is published; a
\* dispatcher whose initialisation failed has no session, ends without a
\* close and never gets one.
C21_SessionClosedOnce ==
    /\ [][(dpc \in RunningPcs \cup {"unwinding"} /\ dpc' = "dead")
          => (session = "open" /\ session' = "closed")]_vars
    /\ [][(session' = "closed" /\ session # "closed") => session = "open"]_vars
    /\ [][session = "closed"
          => /\ session' = "closed"
             /\ nbind' = nbind
             /\ bound' = bound
             /\ hotkeys' = hotkeys
             /\ sink' = sink
             /\ unheard' = unheard]_vars
    /\ [](Running \/ dpc = "unwinding" => session = "open")
    /\ [](session = "closed" => (dpc = "dead" /\ bound = {}))
    /\ [][(dpc = "init" /\ dpc' = "dead")
          => (session = "none" /\ session' = "failed")]_vars
    /\ [][session = "failed" => session' = "failed"]_vars
    /\ [](session = "failed" => (dpc = "dead" /\ bound = {} /\ nbind = 0))

\* C21, reached: registers only, one of them bound, then the manager was
\* dropped: the dispatcher took DropThread, closed the session and ended.
C21_Witness ==
    /\ mgr = "dropped"
    /\ dpc = "dead"
    /\ session = "closed"
    /\ nbind >= 1
    /\ regOk # {}
    /\ bound = {}
    /\ \A c \in Callers : cop[c].op \in {"register", "none"}

====
